---- MODULE Spec2Model ----
(***************************************************************************)
(* Model of pyjector/pyjector.py (class Pyjector): resolution of a device  *)
(* profile into pyserial settings, construction of the device object, and  *)
(* the write / sleep / drain cycle of a command handle.                    *)
(*                                                                         *)
(* Python dicts are functions with a finite domain of strings.  JSON       *)
(* scalars are written by their literal text ("8", "1.5", "none").         *)
(* Python strings are TLA+ strings, concatenated with \o.                  *)
(***************************************************************************)
EXTENDS Integers, Sequences, FiniteSets, TLC

VARIABLES
    pc,                 \* position of the single thread of control
    catalog,            \* the *.json profiles under PATH, by base file name
    port,               \* self.port
    device_id,          \* self.device_id
    overrides,          \* **kwargs of __init__
    available_configs,  \* self.available_configs
    config,             \* self.config
    merged,             \* history: self.config as _apply_overrides left it
    todo,               \* keys of serial_config.items() not yet visited
    pyserial_config,    \* self.pyserial_config
    serial,             \* the serial.Serial object bound to self.serial in __init__
    handles,            \* attributes bound by setattr in _create_commands
    cmdtodo,            \* aliases of command_spec not yet visited
    err,                \* the exception that ended the operation in progress
    call,               \* the method call in progress
    trace,              \* transport / clock operations of the call in progress
    written,            \* strings the transport received during the call
    inbuf,              \* bytes pending in the transport's inbound buffer
    response,           \* local variable of _get_response
    result,             \* value returned to the caller
    drainStart,         \* history: inbuf when _get_response was entered
    arrived,            \* history: bytes that arrived while _get_response ran
    reads               \* history: number of serial.read(1) calls of the drain

vars == <<pc, catalog, port, device_id, overrides, available_configs, config,
          merged, todo, pyserial_config, serial, handles, cmdtodo, err, call,
          trace, written, inbuf, response, result, drainStart, arrived, reads>>

configVars == <<catalog, port, device_id, overrides>>
callVars == <<call, trace, written, inbuf, response, result, drainStart,
              arrived, reads>>

\* ------------------------------------------------------------------------
\* Bounds of the model

\* bytes the device may have left pending when no drain is running
MaxPending == 3
\* bytes that may arrive while one drain is running
MaxArrivals == 2

\* ------------------------------------------------------------------------
\* Dict helpers

EmptyDict == [k \in {} |-> ""]

None == "None"

\* dict.get(key, default)
Get(d, key, default) == IF key \in DOMAIN d THEN d[key] ELSE default

\* d.update(o): every key of o wins, compound values are replaced whole
Update(d, o) ==
    [k \in DOMAIN d \cup DOMAIN o |-> IF k \in DOMAIN o THEN o[k] ELSE d[k]]

\* ------------------------------------------------------------------------
\* Class attributes

possible_pyserial_settings ==
    {"port", "baudrate", "bytesize", "parity", "stopbits", "timeout",
     "xonxoff", "rtscts", "dsrdtr", "writeTimeout", "InterCharTimeout"}

pyserial_config_converter ==
    [bytesize |-> [k \in {"5", "6", "7", "8"} |->
                     CASE k = "5" -> "serial.FIVEBITS"
                       [] k = "6" -> "serial.SIXBITS"
                       [] k = "7" -> "serial.SEVENBITS"
                       [] k = "8" -> "serial.EIGHTBITS"],
     parity   |-> [k \in {"none", "even", "odd", "mark", "space"} |->
                     CASE k = "none"  -> "serial.PARITY_NONE"
                       [] k = "even"  -> "serial.PARITY_EVEN"
                       [] k = "odd"   -> "serial.PARITY_ODD"
                       [] k = "mark"  -> "serial.PARITY_MARK"
                       [] k = "space" -> "serial.PARITY_SPACE"],
     stopbits |-> [k \in {"1", "1.5", "2"} |->
                     CASE k = "1"   -> "serial.STOPBITS_ONE"
                       [] k = "1.5" -> "serial.STOPBITS_ONE_POINT_FIVE"
                       [] k = "2"   -> "serial.STOPBITS_TWO"]]

\* ------------------------------------------------------------------------
\* Exceptions

NoError == [exc |-> "none", msg |-> "", args |-> <<>>]

Raise(exc, msg, args) == [exc |-> exc, msg |-> msg, args |-> args]

MsgNotFound == "Could not find device config with name {0}."
MsgNoSerial ==
    "Configuration file for {0} does not contain needed serial config values. Add a serial section to the config."
MsgNoCommands ==
    "Configuration file for {0} does not define any commands. Add a serial section to the config."
MsgSetting ==
    "Configuration file for {0} specifies a serial setting {1} not recognized by pyserial."
MsgValue ==
    "Configuration file for {0} specifies a serial setting for {1} for key {2} not recognized by pyserial."
MsgPortTwice == "got multiple values for keyword argument 'port'"

\* ------------------------------------------------------------------------
\* The serial.Serial object

NoSerial == [port |-> None, settings |-> EmptyDict, is_open |-> FALSE]

\* ------------------------------------------------------------------------
\* Inputs

Absent == "<absent>"

Restrict(f, S) == [k \in S |-> f[k]]

\* the dict with the keys of f whose value is not Absent
Dict(f) == Restrict(f, {k \in DOMAIN f : f[k] # Absent})

PowerEntry == [command |-> "pow", actions |-> [on |-> "1", off |-> "0"]]
MuteEntry == [command |-> "mut", actions |-> [on |-> "1", off |-> "0"]]

DeviceIds == {"benq", "acer"}
Ports == {None, "/dev/cu.usbserial"}

NoCall == [kind |-> "none", command |-> "", action |-> "", string |-> ""]

\* state before __init__ runs, for given arguments and catalog contents
Fresh(p, d, o, profile) ==
    /\ pc = "new"
    /\ catalog = [n \in {"benq"} |-> profile]
    /\ port = p
    /\ device_id = d
    /\ overrides = o
    /\ available_configs = EmptyDict
    /\ config = EmptyDict
    /\ merged = EmptyDict
    /\ todo = {}
    /\ pyserial_config = EmptyDict
    /\ serial = NoSerial
    /\ handles = EmptyDict
    /\ cmdtodo = {}
    /\ err = NoError
    /\ call = NoCall
    /\ trace = <<>>
    /\ written = <<>>
    /\ inbuf = <<>>
    /\ response = ""
    /\ result = None
    /\ drainStart = <<>>
    /\ arrived = <<>>
    /\ reads = 0

\* ------------------------------------------------------------------------
\* __init__ / get_config

\* _populate_configs and get_device_config_from_id
GetDeviceConfig ==
    /\ pc = "new"
    /\ available_configs' = catalog
    /\ IF device_id \in DOMAIN catalog
       THEN /\ config' = catalog[device_id]
            /\ pc' = "loaded"
            /\ err' = NoError
       ELSE /\ config' = config
            /\ pc' = "raised"
            /\ err' = Raise("KeyError", MsgNotFound, <<device_id>>)
    /\ UNCHANGED <<merged, todo, pyserial_config, serial, handles, cmdtodo>>
    /\ UNCHANGED configVars
    /\ UNCHANGED callVars

apply_overrides_keep == Update(overrides, config)

apply_overrides == Update(config, overrides)

ApplyOverrides ==
    /\ pc = "loaded"
    /\ config' = apply_overrides
    /\ merged' = config'
    /\ pc' = "merged"
    /\ UNCHANGED <<available_configs, todo, pyserial_config, serial, handles,
                   cmdtodo, err>>
    /\ UNCHANGED configVars
    /\ UNCHANGED callVars

validate_config_no_len(c) ==
    IF "serial" \notin DOMAIN c
    THEN Raise("KeyError", MsgNoSerial, <<device_id>>)
    ELSE IF "command_list" \notin DOMAIN c
    THEN Raise("KeyError", MsgNoCommands, <<device_id>>)
    ELSE NoError

validate_config(c) ==
    IF "serial" \notin DOMAIN c
    THEN Raise("KeyError", MsgNoSerial, <<device_id>>)
    ELSE IF \/ "command_list" \notin DOMAIN c
            \/ Cardinality(DOMAIN c["command_list"]) = 0
    THEN Raise("KeyError", MsgNoCommands, <<device_id>>)
    ELSE NoError

ValidateConfig ==
    /\ pc = "merged"
    /\ err' = validate_config(config)
    /\ IF err' = NoError
       THEN /\ pc' = "validated"
            /\ todo' = DOMAIN config["serial"]
       ELSE /\ pc' = "raised"
            /\ todo' = todo
    /\ UNCHANGED <<available_configs, config, merged, pyserial_config, serial,
                   handles, cmdtodo>>
    /\ UNCHANGED configVars
    /\ UNCHANGED callVars

\* one iteration of the loop of get_pyserial_config, for one item of
\* serial_config.items(): the exception it raises, and the value it leaves
\* in serial_config[key]
pyserial_item_unchecked(key, value) ==
    IF key \in DOMAIN pyserial_config_converter
    THEN IF value \in DOMAIN pyserial_config_converter[key]
         THEN [err |-> NoError, value |-> pyserial_config_converter[key][value]]
         ELSE [err |-> Raise("KeyError", MsgValue, <<device_id, value, key>>),
               value |-> value]
    ELSE [err |-> NoError, value |-> value]

pyserial_item_unconverted(key, value) ==
    IF key \notin possible_pyserial_settings
    THEN [err |-> Raise("KeyError", MsgSetting, <<device_id, key>>),
          value |-> value]
    ELSE IF key \in DOMAIN pyserial_config_converter
    THEN IF value \in DOMAIN pyserial_config_converter[key]
         THEN [err |-> NoError, value |-> value]
         ELSE [err |-> Raise("KeyError", MsgValue, <<device_id, value, key>>),
               value |-> value]
    ELSE [err |-> NoError, value |-> value]

pyserial_item(key, value) ==
    IF key \notin possible_pyserial_settings
    THEN [err |-> Raise("KeyError", MsgSetting, <<device_id, key>>),
          value |-> value]
    ELSE IF key \in DOMAIN pyserial_config_converter
    THEN IF value \in DOMAIN pyserial_config_converter[key]
         THEN [err |-> NoError, value |-> pyserial_config_converter[key][value]]
         ELSE [err |-> Raise("KeyError", MsgValue, <<device_id, value, key>>),
               value |-> value]
    ELSE [err |-> NoError, value |-> value]

\* The dict is visited in its hash order, which the profile does not fix:
\* any unvisited key may come next.  serial_config is self.config['serial']
\* itself, so the assignment changes self.config in place.
GetPyserialConfigStep ==
    /\ pc = "validated"
    /\ \E key \in todo :
         LET item == pyserial_item(key, config["serial"][key]) IN
         /\ err' = item.err
         /\ config' = [config EXCEPT !["serial"][key] = item.value]
         /\ todo' = todo \ {key}
         /\ pc' = IF item.err = NoError THEN "validated" ELSE "raised"
    /\ UNCHANGED <<available_configs, merged, pyserial_config, serial, handles,
                   cmdtodo>>
    /\ UNCHANGED configVars
    /\ UNCHANGED callVars

GetPyserialConfigReturn ==
    /\ pc = "validated"
    /\ todo = {}
    /\ pyserial_config' = config["serial"]
    /\ pc' = "resolved"
    /\ UNCHANGED <<available_configs, config, merged, todo, serial, handles,
                   cmdtodo, err>>
    /\ UNCHANGED configVars
    /\ UNCHANGED callVars

\* serial.Serial(port=port, **self.pyserial_config): a 'port' key in the
\* settings collides with the explicit keyword; a port that is not None is
\* opened by the constructor
InitializePyserial ==
    /\ pc = "resolved"
    /\ IF "port" \in DOMAIN pyserial_config
       THEN /\ err' = Raise("TypeError", MsgPortTwice, <<>>)
            /\ pc' = "raised"
            /\ UNCHANGED <<serial, cmdtodo>>
       ELSE /\ serial' = [port |-> port, settings |-> pyserial_config,
                          is_open |-> port # None]
            /\ cmdtodo' = DOMAIN config["command_list"]
            /\ pc' = "opened"
            /\ err' = err
    /\ UNCHANGED <<available_configs, config, merged, todo, pyserial_config,
                   handles>>
    /\ UNCHANGED configVars
    /\ UNCHANGED callVars

\* setattr(self, command, _create_handler(command)): the closure keeps the
\* command it was created for
CreateCommand ==
    /\ pc = "opened"
    /\ \E command \in cmdtodo :
         /\ handles' = Update(handles, [c \in {command} |-> command])
         /\ cmdtodo' = cmdtodo \ {command}
    /\ UNCHANGED <<pc, available_configs, config, merged, todo,
                   pyserial_config, serial, err>>
    /\ UNCHANGED configVars
    /\ UNCHANGED callVars

CreateCommandsReturn ==
    /\ pc = "opened"
    /\ cmdtodo = {}
    /\ pc' = "ready"
    /\ UNCHANGED <<available_configs, config, merged, todo, pyserial_config,
                   serial, handles, cmdtodo, err>>
    /\ UNCHANGED configVars
    /\ UNCHANGED callVars

\* ------------------------------------------------------------------------
\* Command handles

\* self.<name> is a handler: an attribute bound by setattr shadows whatever
\* __init__ bound to that name before
IsHandler(name) == name \in DOMAIN handles

MsgNoAttribute == "'function' object has no attribute"
MsgPortNotOpen == "Attempting to use a port that is not open"
MsgSleepArity == "sleep() takes exactly 1 argument (2 given)"
MsgSleepFloat == "a float is required"

create_command_string_tokens(command, action) ==
    LET entry == config["command_list"][command] IN
    Get(config, "left_surround", "") \o entry.command
        \o Get(config, "seperator", "")
        \o Get(entry.actions, action, action)
        \o Get(config, "right_surround", "")

create_command_string(command, action) ==
    Get(config, "left_surround", "") \o command
        \o Get(config, "seperator", "") \o action
        \o Get(config, "right_surround", "")

\* time.sleep is called with its positional arguments; the builtin checks
\* their number before it looks at the duration
time_sleep(args) ==
    IF Len(args) # 1
    THEN Raise("TypeError", MsgSleepArity, <<>>)
    ELSE IF args[1] = None
    THEN Raise("TypeError", MsgSleepFloat, <<>>)
    ELSE NoError

\* sleep(self.config.get('wait_time'), 1)
sleep_wait_time(c) == time_sleep(<<Get(c, "wait_time", None), "1">>)

ActionNames == {"on", "zoom"}

\* pyj.<alias>(action): handler -> _command_handler up to and including
\* self.serial.write(command_string)
CommandHandlerWrite ==
    /\ pc = "ready"
    /\ \E alias \in DOMAIN handles, action \in ActionNames :
         LET command == handles[alias] IN
         IF IsHandler("config")
         THEN /\ call' = [kind |-> "handler", command |-> command,
                          action |-> action, string |-> ""]
              /\ err' = Raise("AttributeError", MsgNoAttribute, <<"get">>)
              /\ pc' = "raised"
              /\ UNCHANGED <<trace, written>>
         ELSE LET command_string == create_command_string(command, action) IN
              /\ call' = [kind |-> "handler", command |-> command,
                          action |-> action, string |-> command_string]
              /\ IF IsHandler("serial")
                 THEN /\ err' = Raise("AttributeError", MsgNoAttribute, <<"write">>)
                      /\ pc' = "raised"
                      /\ UNCHANGED <<trace, written>>
                 ELSE IF ~serial.is_open
                 THEN /\ err' = Raise("SerialException", MsgPortNotOpen, <<>>)
                      /\ pc' = "raised"
                      /\ UNCHANGED <<trace, written>>
                 ELSE /\ written' = Append(written, command_string)
                      /\ trace' = Append(trace, "write")
                      /\ pc' = "written"
                      /\ err' = err
    /\ UNCHANGED <<available_configs, config, merged, todo, pyserial_config,
                   serial, handles, cmdtodo>>
    /\ UNCHANGED <<inbuf, response, result, drainStart, arrived, reads>>
    /\ UNCHANGED configVars

\* sleep(self.config.get('wait_time'), 1), then the entry of _get_response
CommandHandlerSleep ==
    /\ pc = "written"
    /\ LET slept == sleep_wait_time(config) IN
       IF slept = NoError
       THEN /\ trace' = trace \o <<"sleep", "drain">>
            /\ response' = ""
            /\ drainStart' = inbuf
            /\ arrived' = <<>>
            /\ reads' = 0
            /\ pc' = "drain"
            /\ err' = err
       ELSE /\ err' = slept
            /\ pc' = "raised"
            /\ UNCHANGED <<trace, response, drainStart, arrived, reads>>
    /\ UNCHANGED <<available_configs, config, merged, todo, pyserial_config,
                   serial, handles, cmdtodo>>
    /\ UNCHANGED <<call, written, inbuf, result>>
    /\ UNCHANGED configVars

\* pyj._get_response() called on its own
GetResponseCall ==
    /\ pc = "ready"
    /\ call' = [NoCall EXCEPT !.kind = "get_response"]
    /\ trace' = <<"drain">>
    /\ response' = ""
    /\ drainStart' = inbuf
    /\ arrived' = <<>>
    /\ reads' = 0
    /\ pc' = "drain"
    /\ UNCHANGED <<available_configs, config, merged, todo, pyserial_config,
                   serial, handles, cmdtodo, err>>
    /\ UNCHANGED <<written, inbuf, result>>
    /\ UNCHANGED configVars

\* self.serial.inWaiting() of the loop test
in_waiting_error ==
    IF IsHandler("serial")
    THEN Raise("AttributeError", MsgNoAttribute, <<"inWaiting">>)
    ELSE IF ~serial.is_open
    THEN Raise("SerialException", MsgPortNotOpen, <<>>)
    ELSE NoError

GetResponseReadTwo ==
    /\ pc = "drain"
    /\ in_waiting_error = NoError
    /\ Len(inbuf) > 0
    /\ response' = response \o Head(inbuf)
    /\ inbuf' = IF Len(inbuf) > 1 THEN Tail(Tail(inbuf)) ELSE Tail(inbuf)
    /\ reads' = reads + 1
    /\ UNCHANGED <<pc, available_configs, config, merged, todo,
                   pyserial_config, serial, handles, cmdtodo, err>>
    /\ UNCHANGED <<call, trace, written, result, drainStart, arrived>>
    /\ UNCHANGED configVars

\* while self.serial.inWaiting() > 0: response += self.serial.read(1)
GetResponseRead ==
    /\ pc = "drain"
    /\ in_waiting_error = NoError
    /\ Len(inbuf) > 0
    /\ response' = response \o Head(inbuf)
    /\ inbuf' = Tail(inbuf)
    /\ reads' = reads + 1
    /\ UNCHANGED <<pc, available_configs, config, merged, todo,
                   pyserial_config, serial, handles, cmdtodo, err>>
    /\ UNCHANGED <<call, trace, written, result, drainStart, arrived>>
    /\ UNCHANGED configVars

\* the loop test fails or raises: return response
GetResponseReturn ==
    /\ pc = "drain"
    /\ in_waiting_error # NoError \/ Len(inbuf) = 0
    /\ IF in_waiting_error # NoError
       THEN /\ err' = in_waiting_error
            /\ pc' = "raised"
            /\ result' = result
       ELSE /\ result' = response
            /\ pc' = "returned"
            /\ err' = err
    /\ UNCHANGED <<available_configs, config, merged, todo, pyserial_config,
                   serial, handles, cmdtodo>>
    /\ UNCHANGED <<call, trace, written, inbuf, response, drainStart, arrived,
                   reads>>
    /\ UNCHANGED configVars

Bytes == {"O", "K"}

\* the device sends a byte; the open port buffers it
Arrive ==
    /\ serial.is_open
    /\ \E b \in Bytes :
         /\ inbuf' = Append(inbuf, b)
         /\ IF pc = "drain"
            THEN /\ Len(arrived) < MaxArrivals
                 /\ Len(inbuf) < MaxPending + MaxArrivals
                 /\ arrived' = Append(arrived, b)
            ELSE /\ pc \in {"ready", "written"}
                 /\ Len(inbuf) < MaxPending
                 /\ arrived' = arrived
    /\ UNCHANGED <<pc, available_configs, config, merged, todo,
                   pyserial_config, serial, handles, cmdtodo, err>>
    /\ UNCHANGED <<call, trace, written, response, result, drainStart, reads>>
    /\ UNCHANGED configVars

\* the caller has the result or the exception and goes on using the device
Continue ==
    /\ call.kind # "none"
    /\ pc \in {"returned", "raised"}
    /\ pc' = "ready"
    /\ err' = NoError
    /\ call' = NoCall
    /\ trace' = <<>>
    /\ written' = <<>>
    /\ response' = ""
    /\ result' = None
    /\ drainStart' = <<>>
    /\ arrived' = <<>>
    /\ reads' = 0
    /\ UNCHANGED <<available_configs, config, merged, todo, pyserial_config,
                   serial, handles, cmdtodo>>
    /\ UNCHANGED <<inbuf>>
    /\ UNCHANGED configVars

\* ------------------------------------------------------------------------
\* Profiles and keyword arguments of the resolution specification

SerialOption(key) ==
    CASE key = "baudrate" -> {Absent, "9600"}
      [] key = "bytesize" -> {Absent, "8", "9"}
      [] key = "parity"   -> {Absent, "none", "N"}
      [] key = "stopbits" -> {Absent, "1.5", "3"}
      [] key = "port"     -> {Absent, "/dev/ttyS0"}
      [] key = "foo"      -> {Absent, "1"}
      [] key = "bar"      -> {Absent, "1"}

CommandTables ==
    {EmptyDict, [power |-> PowerEntry], [power |-> PowerEntry, mute |-> MuteEntry]}

ResolveOverrides ==
    {EmptyDict,
     [baudrate |-> "19200"],
     [serial |-> [baudrate |-> "19200"]],
     [serial |-> [parity |-> "odd", timeout |-> "1"], wait_time |-> "2"],
     [serial |-> EmptyDict],
     [command_list |-> EmptyDict],
     [command_list |-> [mute |-> MuteEntry], baudrate |-> "19200"]}

InitResolve ==
    \E vbaud \in SerialOption("baudrate"), vsize \in SerialOption("bytesize"),
       vpar \in SerialOption("parity"), vstop \in SerialOption("stopbits"),
       vport \in SerialOption("port"), vfoo \in SerialOption("foo"),
       vbar \in SerialOption("bar"),
       hasSerial \in BOOLEAN, hasCommands \in BOOLEAN,
       table \in CommandTables, o \in ResolveOverrides, d \in DeviceIds :
      LET block == Dict([baudrate |-> vbaud, bytesize |-> vsize,
                         parity |-> vpar, stopbits |-> vstop, port |-> vport,
                         foo |-> vfoo, bar |-> vbar])
          profile ==
              Update(Update(IF hasSerial THEN [serial |-> block] ELSE EmptyDict,
                            IF hasCommands THEN [command_list |-> table]
                            ELSE EmptyDict),
                     [wait_time |-> "1"])
      IN Fresh("/dev/cu.usbserial", d, o, profile)

NextResolve ==
    \/ GetDeviceConfig
    \/ ApplyOverrides
    \/ ValidateConfig
    \/ GetPyserialConfigStep
    \/ GetPyserialConfigReturn
    \/ InitializePyserial
    \/ CreateCommand
    \/ CreateCommandsReturn

SpecResolve == InitResolve /\ [][NextResolve]_vars

\* ------------------------------------------------------------------------
\* Profiles and arguments of the dispatch specification

DispatchTables ==
    {[power |-> PowerEntry],
     [power |-> PowerEntry, serial |-> MuteEntry],
     [mute |-> MuteEntry, config |-> PowerEntry]}

DispatchProfiles ==
    {Update(Dict([left_surround |-> l, seperator |-> s, right_surround |-> r,
                  wait_time |-> w]),
            [serial |-> [baudrate |-> "9600"], command_list |-> t]) :
        l \in {Absent, "("}, s \in {Absent, ":"}, r \in {Absent, ")"},
        w \in {Absent, "1"}, t \in DispatchTables}

InitDispatch ==
    \E p \in Ports, d \in DeviceIds, profile \in DispatchProfiles :
        Fresh(p, d, EmptyDict, profile)

NextDispatch ==
    \/ GetDeviceConfig
    \/ ApplyOverrides
    \/ ValidateConfig
    \/ GetPyserialConfigStep
    \/ GetPyserialConfigReturn
    \/ InitializePyserial
    \/ CreateCommand
    \/ CreateCommandsReturn
    \/ CommandHandlerWrite
    \/ CommandHandlerSleep
    \/ GetResponseCall
    \/ GetResponseRead
    \/ GetResponseReturn
    \/ Arrive
    \/ Continue

SpecDispatch == InitDispatch /\ [][NextDispatch]_vars

\* ------------------------------------------------------------------------
\* Vocabulary of the resolution claims

Profile == catalog["benq"]

Found == pc \notin {"new"} /\ ~(pc = "raised" /\ err.msg = MsgNotFound)

\* _apply_overrides has run
Merged == Found /\ pc # "loaded"

\* _validate_config has run
ValidationDone == Merged /\ pc # "merged"

InvalidConfig == pc = "raised" /\ err.msg \in {MsgNoSerial, MsgNoCommands}

HasBlock(c, key) == key \in DOMAIN c /\ DOMAIN c[key] # {}

\* get_pyserial_config has run to its return or to its raise
ResolutionDone == ValidationDone /\ ~InvalidConfig /\ pc # "validated"

Resolved == pc \in {"resolved", "opened", "ready"}
               \/ (pc = "raised" /\ err.msg = MsgPortTwice)

MergedSerial == merged["serial"]

UnknownKeys == {k \in DOMAIN MergedSerial : k \notin possible_pyserial_settings}

BadValueKeys ==
    {k \in DOMAIN MergedSerial \cap DOMAIN pyserial_config_converter :
        MergedSerial[k] \notin DOMAIN pyserial_config_converter[k]}

UnsupportedSetting(key) ==
    /\ pc = "raised"
    /\ err = Raise("KeyError", MsgSetting, <<device_id, key>>)

UnsupportedValue(key, value) ==
    /\ pc = "raised"
    /\ err = Raise("KeyError", MsgValue, <<device_id, value, key>>)

ShallowMerge(result_, base, over) ==
    /\ DOMAIN result_ = DOMAIN base \cup DOMAIN over
    /\ \A k \in DOMAIN over : result_[k] = over[k]
    /\ \A k \in DOMAIN base \ DOMAIN over : result_[k] = base[k]

\* ------------------------------------------------------------------------
\* C4 (as stated): resolution fails with InvalidConfig whenever the merged
\* profile lacks a non-empty 'serial' block or a non-empty 'command_list',
\* and raises no InvalidConfig when both are present and non-empty.
C4_Original ==
    ValidationDone =>
        (InvalidConfig <=>
            ~(HasBlock(merged, "serial") /\ HasBlock(merged, "command_list")))

\* C4 (amended): _validate_config raises the KeyError about serial config
\* values exactly when the merged profile has no 'serial' key, and otherwise
\* the KeyError about commands exactly when 'command_list' is missing or
\* empty; a 'serial' block that is present but empty is accepted.
C4_Validate ==
    ValidationDone =>
        /\ "serial" \notin DOMAIN merged
              => pc = "raised" /\ err = Raise("KeyError", MsgNoSerial, <<device_id>>)
        /\ ("serial" \in DOMAIN merged /\ ~HasBlock(merged, "command_list"))
              => pc = "raised" /\ err = Raise("KeyError", MsgNoCommands, <<device_id>>)
        /\ ("serial" \in DOMAIN merged /\ HasBlock(merged, "command_list"))
              => ~InvalidConfig

C4_Witness ==
    /\ ValidationDone
    /\ "serial" \in DOMAIN merged
    /\ "command_list" \in DOMAIN merged
    /\ DOMAIN merged["command_list"] = {}
    /\ err.msg = MsgNoCommands

\* ------------------------------------------------------------------------
\* C5 (as stated): a 'serial' block with a key outside the allow-list always
\* makes resolution fail with UnsupportedSetting naming such a key.
C5_Original ==
    (ResolutionDone /\ UnknownKeys # {}) =>
        \E k \in UnknownKeys : UnsupportedSetting(k)

\* C5 (amended): a validated profile whose 'serial' block has a key outside
\* the allow-list never resolves: get_pyserial_config raises either
\* UnsupportedSetting naming a key of the block outside the allow-list, or
\* UnsupportedValue for an allow-listed key with an untranslatable value that
\* was visited first; when no value is untranslatable it is UnsupportedSetting.
C5_UnknownKeyFails ==
    (ResolutionDone /\ UnknownKeys # {}) =>
        /\ \/ \E k \in UnknownKeys : UnsupportedSetting(k)
           \/ \E k \in BadValueKeys : UnsupportedValue(k, MergedSerial[k])
        /\ BadValueKeys = {} => \E k \in UnknownKeys : UnsupportedSetting(k)

C5_Witness ==
    /\ ResolutionDone
    /\ BadValueKeys # {}
    /\ Cardinality(UnknownKeys) = 2
    /\ UnsupportedSetting("foo")

\* ------------------------------------------------------------------------
\* the block with every bytesize / parity / stopbits value replaced by the
\* constant of the lookup table
Translated(block) ==
    [k \in DOMAIN block |->
        IF k \in DOMAIN pyserial_config_converter
        THEN pyserial_config_converter[k][block[k]]
        ELSE block[k]]

\* C6: over a block of allow-listed keys, get_pyserial_config returns the
\* block with bytesize, parity and stopbits replaced by their table constants
\* and every other key unchanged (same key set); a value outside the table
\* raises UnsupportedValue naming the key and the value.
C6_Translation ==
    (ResolutionDone /\ UnknownKeys = {}) =>
        IF BadValueKeys = {}
        THEN /\ Resolved
             /\ pyserial_config = Translated(MergedSerial)
             /\ DOMAIN pyserial_config = DOMAIN MergedSerial
             /\ \A k \in DOMAIN MergedSerial \ {"bytesize", "parity", "stopbits"} :
                    pyserial_config[k] = MergedSerial[k]
             /\ ("parity" \in DOMAIN MergedSerial /\ MergedSerial["parity"] = "none")
                    => pyserial_config["parity"] = "serial.PARITY_NONE"
             /\ ("stopbits" \in DOMAIN MergedSerial /\ MergedSerial["stopbits"] = "1.5")
                    => pyserial_config["stopbits"] = "serial.STOPBITS_ONE_POINT_FIVE"
        ELSE \E k \in BadValueKeys : UnsupportedValue(k, MergedSerial[k])

C6_Witness ==
    /\ pc = "resolved"
    /\ {"baudrate", "bytesize", "parity", "stopbits"} \subseteq DOMAIN MergedSerial
    /\ pyserial_config["baudrate"] = "9600"
    /\ pyserial_config["bytesize"] = "serial.EIGHTBITS"

\* ------------------------------------------------------------------------
\* C7 (as stated): after resolve, the config's value at every top-level key
\* of the overrides is exactly the override's value, and at every other key
\* the profile's own.
C7_Original ==
    Resolved => ShallowMerge(config, Profile, overrides)

\* C7 (amended): _apply_overrides leaves exactly the shallow, override-wins
\* merge; the resolved config differs from it only inside 'serial', whose key
\* set is unchanged and whose bytesize / parity / stopbits values have been
\* replaced in place by their table constants.
C7_ShallowMerge ==
    Merged =>
        /\ ShallowMerge(merged, Profile, overrides)
        /\ pc = "merged" => config = merged
        /\ DOMAIN config = DOMAIN merged
        /\ \A k \in DOMAIN config \ {"serial"} : config[k] = merged[k]
        /\ "serial" \in DOMAIN config =>
              /\ DOMAIN config["serial"] = DOMAIN MergedSerial
              /\ \A j \in DOMAIN MergedSerial :
                    \/ config["serial"][j] = MergedSerial[j]
                    \/ /\ j \in DOMAIN pyserial_config_converter
                       /\ MergedSerial[j] \in DOMAIN pyserial_config_converter[j]
                       /\ config["serial"][j] =
                              pyserial_config_converter[j][MergedSerial[j]]
        /\ Resolved => config["serial"] = Translated(MergedSerial)

C7_Witness ==
    /\ pc = "ready"
    /\ "serial" \in DOMAIN overrides
    /\ "serial" \in DOMAIN Profile
    /\ "bytesize" \in DOMAIN Profile["serial"]
    /\ config["serial"] = [baudrate |-> "19200"]

\* ------------------------------------------------------------------------
\* C8 (as stated, from the docstring of __init__): a keyword argument that
\* names a transport setting reaches the serial.Serial object with the given
\* value.
C8_KeywordReachesTransport ==
    pc \in {"opened", "ready"} =>
        \A k \in DOMAIN overrides \cap possible_pyserial_settings :
            k \in DOMAIN serial.settings /\ serial.settings[k] = overrides[k]

\* ------------------------------------------------------------------------
\* Vocabulary of the dispatch claims

RECURSIVE Join(_)
\* the bytes of a sequence, concatenated in order
Join(bytes) == IF bytes = <<>> THEN "" ELSE Head(bytes) \o Join(Tail(bytes))

Without(d, key) == Restrict(d, DOMAIN d \ {key})

\* a call of a command handle has ended, by return or by exception
DispatchDone == call.kind = "handler" /\ pc \in {"returned", "raised"}

\* ------------------------------------------------------------------------
\* C1 (as stated): on a constructed device with wait_time set, a call of a
\* command handle writes the wire string once, waits, drains, and returns the
\* drained response without an error (the transport raising none).
C1_WriteWaitDrain ==
    (/\ DispatchDone
     /\ "wait_time" \in DOMAIN merged
     /\ serial.is_open
     /\ ~IsHandler("serial")
     /\ ~IsHandler("config")) =>
        /\ pc = "returned"
        /\ err = NoError
        /\ written = <<call.string>>
        /\ trace = <<"write", "sleep", "drain">>
        /\ result = Join(drainStart \o arrived)

\* ------------------------------------------------------------------------
\* the wire string of the claim, from the merged profile
WireString(command, action) ==
    (IF "left_surround" \in DOMAIN merged THEN merged["left_surround"] ELSE "")
        \o command
        \o (IF "seperator" \in DOMAIN merged THEN merged["seperator"] ELSE "")
        \o action
        \o (IF "right_surround" \in DOMAIN merged THEN merged["right_surround"] ELSE "")

\* C2: the string a command handle writes to the transport is
\* left_surround + alias + seperator + action + right_surround, each of the
\* three being the profile's value or '' when unset, with the alias and the
\* action name themselves and not the tokens of the command table, whether
\* or not the action is listed; '(' ':' ')' give '(power:on)'.
C2_WireString ==
    (call.kind = "handler" /\ written # <<>>) =>
        /\ written = <<WireString(call.command, call.action)>>
        /\ call.string = written[1]
        /\ call.command \in DOMAIN merged["command_list"]
        /\ ({"left_surround", "seperator", "right_surround"} \subseteq DOMAIN merged
            /\ call.command = "power" /\ call.action = "on")
               => written = <<"(power:on)">>
        /\ ({"left_surround", "seperator", "right_surround"} \cap DOMAIN merged = {}
            /\ call.command = "power" /\ call.action = "zoom")
               => written = <<"powerzoom">>

C2_Witness ==
    /\ pc = "written"
    /\ call.command = "power"
    /\ call.action = "on"
    /\ written = <<"(power:on)">>

\* ------------------------------------------------------------------------
\* C3 (as stated): without wait_time a dispatch ends in an error, and that
\* error is specific to the missing wait_time: the same dispatch with
\* wait_time set does not end in it.
C3_MissingWaitTime ==
    (DispatchDone /\ written # <<>>) =>
        /\ "wait_time" \notin DOMAIN config => pc = "raised"
        /\ "wait_time" \in DOMAIN config =>
              ~(pc = "raised" /\ err = sleep_wait_time(Without(config, "wait_time")))

\* ------------------------------------------------------------------------
\* C9: _get_response returns the pending bytes in arrival order, one read per
\* byte: with n bytes pending and no arrival it makes exactly n reads and
\* leaves the buffer empty, on an empty buffer it makes none and returns '';
\* it returns as soon as nothing is pending.
C9_Drain ==
    /\ pc = "drain" =>
          /\ response \o Join(inbuf) = Join(drainStart \o arrived)
          /\ reads + Len(inbuf) = Len(drainStart) + Len(arrived)
          /\ (in_waiting_error = NoError /\ inbuf = <<>>) => ENABLED GetResponseReturn
    /\ pc = "returned" =>
          /\ result = Join(drainStart \o arrived)
          /\ reads = Len(drainStart) + Len(arrived)
          /\ inbuf = <<>>
          /\ arrived = <<>> => reads = Len(drainStart) /\ result = Join(drainStart)
          /\ (drainStart = <<>> /\ arrived = <<>>) => reads = 0 /\ result = ""

C9_Witness ==
    /\ pc = "returned"
    /\ drainStart = <<"O", "K">>
    /\ arrived = <<>>
    /\ reads = 2
    /\ result = "OK"
    /\ inbuf = <<>>

\* ------------------------------------------------------------------------
\* C10 (as stated): after construction every alias of the command table is a
\* handle bound to its own alias, and creating the handles has left the
\* transport handle and the resolved config of the device in place.
C10_Handles ==
    pc = "ready" =>
        /\ \A c \in DOMAIN merged["command_list"] : IsHandler(c) /\ handles[c] = c
        /\ ~IsHandler("serial")
        /\ ~IsHandler("config")

====
